---- MODULE Spec2Model ----
(***************************************************************************)
(* The COVID-19 dashboard of src/app.py as a state machine.                *)
(*                                                                         *)
(* One render of the page is one run of main(): it obtains the table from  *)
(* the memoized load_data, stops when there is none, and draws one of the  *)
(* two views.  The input file is fixed for the lifetime of the process;    *)
(* the user's widget choices are the inputs of each render.                *)
(*                                                                         *)
(* Text is a sequence of one-character strings, so that strip, lower and   *)
(* the two regular-expression replacements are computed character by       *)
(* character.  A data frame is [cols, rows]: the column labels in order    *)
(* (twice the same label is possible) and the rows, each a sequence of     *)
(* cells aligned with cols.  A cell is a record tagged by k:               *)
(*   "str" (s: characters), "int" (v), "null"           cells of the file  *)
(*   "float" (v: whole number held as float64), "nanf"  after read_json    *)
(*   "ts" (day), "NaT"                                  after to_datetime  *)
(*   "rat" (n, d), "inf", "nan", "NA", "dbl" (g)        derived metrics    *)
(***************************************************************************)
EXTENDS Integers, Sequences, FiniteSets, TLC

\* ------------------------------------------------------------------ bounds

\* At most this many records in the input file.
MaxRows == 2

\* ------------------------------------------------------------------ text

Digits == {"0", "1", "2", "3", "4", "5", "6", "7", "8", "9"}

LowerLetters == <<"a", "b", "c", "d", "e", "f", "g", "h", "i", "j", "k", "l", "m",
                  "n", "o", "p", "q", "r", "s", "t", "u", "v", "w", "x", "y", "z">>

UpperLetters == <<"A", "B", "C", "D", "E", "F", "G", "H", "I", "J", "K", "L", "M",
                  "N", "O", "P", "Q", "R", "S", "T", "U", "V", "W", "X", "Y", "Z">>

Range(s) == {s[i] : i \in 1..Len(s)}

\* A sequence given as a function on 1..n, as the tuple of its values.
Tup(f) == SubSeq(f, 1, Len(f))

\* str.lower() on one character.
LowerChar(c) ==
    IF c \in Range(UpperLetters)
    THEN LowerLetters[CHOOSE i \in 1..Len(UpperLetters) : UpperLetters[i] = c]
    ELSE c

\* .str.lower()
StrLower(s) == Tup([i \in 1..Len(s) |-> LowerChar(s[i])])

IsSpace(c) == c = " "

RECURSIVE LStrip(_)
LStrip(s) ==
    IF s /= <<>> /\ IsSpace(Head(s)) THEN LStrip(Tail(s)) ELSE s

RECURSIVE RStrip(_)
RStrip(s) ==
    IF s /= <<>> /\ IsSpace(s[Len(s)]) THEN RStrip(SubSeq(s, 1, Len(s) - 1)) ELSE s

\* .str.strip()
StrStrip(s) == RStrip(LStrip(s))

\* The character class [a-z0-9].
IsLowerAlnum(c) == c \in Range(LowerLetters) \cup Digits

RECURSIVE SkipNonAlnum(_)
SkipNonAlnum(s) ==
    IF s /= <<>> /\ ~IsLowerAlnum(Head(s)) THEN SkipNonAlnum(Tail(s)) ELSE s

\* .str.replace("[^a-z0-9]+", "_", regex=True): every maximal run of
\* characters outside [a-z0-9] becomes one underscore.
RECURSIVE ReplaceRuns(_)
ReplaceRuns(s) ==
    IF s = <<>> THEN <<>>
    ELSE IF IsLowerAlnum(Head(s)) THEN <<Head(s)>> \o ReplaceRuns(Tail(s))
    ELSE <<"_">> \o ReplaceRuns(SkipNonAlnum(Tail(s)))

\* The characters of a text as one string, to compare it with a literal.
RECURSIVE Join(_)
Join(s) == IF s = <<>> THEN "" ELSE Head(s) \o Join(Tail(s))

\* Column-name normalisation: strip, lower, replace.
NormalizeName(raw) == Join(ReplaceRuns(StrLower(StrStrip(raw))))

\* .str.replace("[^0-9]", "", regex=True)
RECURSIVE KeepDigits(_)
KeepDigits(s) ==
    IF s = <<>> THEN <<>>
    ELSE IF Head(s) \in Digits THEN <<Head(s)>> \o KeepDigits(Tail(s))
    ELSE KeepDigits(Tail(s))

DigitChars == <<"0", "1", "2", "3", "4", "5", "6", "7", "8", "9">>

DigitValue(c) == (CHOOSE i \in 1..10 : DigitChars[i] = c) - 1

\* str(n) of a non-negative integer.
RECURSIVE IntToStr(_)
IntToStr(n) ==
    IF n < 10 THEN <<DigitChars[n + 1]>>
    ELSE IntToStr(n \div 10) \o <<DigitChars[(n % 10) + 1]>>

RECURSIVE DropLeadingZeros(_)
DropLeadingZeros(d) ==
    IF Len(d) > 1 /\ Head(d) = "0" THEN DropLeadingZeros(Tail(d)) ELSE d

\* The number a non-empty digit string denotes (for strings short enough
\* for the value to be computed here: at most nine significant digits).
RECURSIVE DigitsToNat(_)
DigitsToNat(d) ==
    IF d = <<>> THEN 0
    ELSE 10 * DigitsToNat(SubSeq(d, 1, Len(d) - 1)) + DigitValue(d[Len(d)])

\* 2^63 - 1, the largest int64, digit by digit.
Int64MaxDigits == <<"9", "2", "2", "3", "3", "7", "2", "0", "3", "6", "8", "5",
                    "4", "7", "7", "5", "8", "0", "7">>

\* Lexicographic <= on digit strings of equal length.
RECURSIVE DigitsLeq(_, _)
DigitsLeq(a, b) ==
    IF a = <<>> THEN TRUE
    ELSE IF DigitValue(Head(a)) < DigitValue(Head(b)) THEN TRUE
    ELSE IF DigitValue(Head(a)) > DigitValue(Head(b)) THEN FALSE
    ELSE DigitsLeq(Tail(a), Tail(b))

\* Whether the number a digit string denotes is at most 2^63 - 1.
FitsInt64(d) ==
    LET z == DropLeadingZeros(d)
    IN  \/ Len(z) < Len(Int64MaxDigits)
        \/ Len(z) = Len(Int64MaxDigits) /\ DigitsLeq(z, Int64MaxDigits)

\* ------------------------------------------------------------------ cells

StrCell(s) == [k |-> "str", s |-> s]
IntCell(v) == [k |-> "int", v |-> v]
NullCell == [k |-> "null"]
DateText(t) == [k |-> "date_text", t |-> t]
FloatCell(v) == [k |-> "float", v |-> v]
NanFloat == [k |-> "nanf"]
Ts(day) == [k |-> "ts", day |-> day]
NaT == [k |-> "NaT"]

\* ------------------------------------------------------------------ the input file

\* The keys the records of a file carry, as written in the file, each with
\* the field of the record it holds.
Layouts ==
    { \* every column, in the spelling of a typical export
      << [raw |-> <<" ", "D", "a", "t", "e", " ">>, field |-> "date"],
         [raw |-> <<"C", "o", "n", "f", "i", "r", "m", "e", "d">>, field |-> "confirmed"],
         [raw |-> <<"D", "e", "a", "t", "h", "s">>, field |-> "deaths"],
         [raw |-> <<"R", "e", "c", "o", "v", "e", "r", "e", "d">>, field |-> "recovered"],
         [raw |-> <<"A", "c", "t", "i", "v", "e">>, field |-> "active"],
         [raw |-> <<"N", "e", "w", " ", "C", "a", "s", "e", "s">>, field |-> "new_cases"],
         [raw |-> <<"N", "e", "w", " ", "-", " ", "D", "e", "a", "t", "h", "s">>, field |-> "new_deaths"] >>,
      \* no date field
      << [raw |-> <<"D", "a", "y">>, field |-> "date"],
         [raw |-> <<"C", "o", "n", "f", "i", "r", "m", "e", "d">>, field |-> "confirmed"],
         [raw |-> <<"D", "e", "a", "t", "h", "s">>, field |-> "deaths"] >>,
      \* two aliases of total_confirmed_cases
      << [raw |-> <<"D", "a", "t", "e">>, field |-> "date"],
         [raw |-> <<"T", "o", "t", "a", "l", "C", "a", "s", "e", "s">>, field |-> "totalcases"],
         [raw |-> <<"C", "o", "n", "f", "i", "r", "m", "e", "d">>, field |-> "confirmed"],
         [raw |-> <<"D", "e", "a", "t", "h", "s">>, field |-> "deaths"],
         [raw |-> <<"R", "e", "c", "o", "v", "e", "r", "e", "d">>, field |-> "recovered"],
         [raw |-> <<"A", "c", "t", "i", "v", "e">>, field |-> "active"],
         [raw |-> <<"n", "e", "w", "_", "c", "a", "s", "e", "s">>, field |-> "new_cases"],
         [raw |-> <<"n", "e", "w", "_", "d", "e", "a", "t", "h", "s">>, field |-> "new_deaths"] >>,
      \* optional count columns absent
      << [raw |-> <<"d", "a", "t", "e">>, field |-> "date"],
         [raw |-> <<"t", "o", "t", "a", "l", "_", "c", "o", "n", "f", "i", "r", "m", "e", "d", "_", "c", "a", "s", "e", "s">>, field |-> "confirmed"] >>,
      \* two keys that normalise to date
      << [raw |-> <<"D", "a", "t", "e">>, field |-> "date"],
         [raw |-> <<"D", "A", "T", "E", " ">>, field |-> "date"],
         [raw |-> <<"C", "o", "n", "f", "i", "r", "m", "e", "d">>, field |-> "confirmed"] >> }

\* The records a file is made of.
Records ==
    { [date |-> DateText("2021-01-01"), totalcases |-> IntCell(90),
       confirmed |-> StrCell(<<"1", "0", "0">>), deaths |-> IntCell(2),
       recovered |-> StrCell(<<"5", "0">>), active |-> StrCell(<<"4", "8">>),
       new_cases |-> IntCell(10), new_deaths |-> IntCell(1)],
      [date |-> DateText("2021-01-02"), totalcases |-> IntCell(140),
       confirmed |-> StrCell(<<"1", ",", "2", "3", "4", " ", "c", "a", "s", "e", "s">>), deaths |-> IntCell(3),
       recovered |-> StrCell(<<"7", "0">>), active |-> StrCell(<<"1", " ", "1", "6", "1">>),
       new_cases |-> IntCell(50), new_deaths |-> IntCell(1)],
      [date |-> DateText("2021-01-02"), totalcases |-> IntCell(0),
       confirmed |-> StrCell(<<"n", "/", "a">>), deaths |-> IntCell(1),
       recovered |-> NullCell, active |-> StrCell(<<"0">>),
       new_cases |-> NullCell, new_deaths |-> IntCell(0)],
      [date |-> DateText("01/03/2021"), totalcases |-> IntCell(160),
       confirmed |-> StrCell(<<"1", "5", "0">>), deaths |-> IntCell(3),
       recovered |-> StrCell(<<"7", "0">>), active |-> StrCell(<<"7", "7">>),
       new_cases |-> IntCell(16), new_deaths |-> IntCell(0)],
      [date |-> DateText("not a date"), totalcases |-> IntCell(7),
       confirmed |-> StrCell(<<"7">>), deaths |-> IntCell(0),
       recovered |-> StrCell(<<"0">>), active |-> StrCell(<<"7">>),
       new_cases |-> IntCell(7), new_deaths |-> IntCell(0)],
      [date |-> DateText("2021-01-04"), totalcases |-> IntCell(170),
       confirmed |-> StrCell(<<"9", "9", ",", "9", "9", "9", ",", "9", "9", "9", ",", "9", "9", "9", ",", "9", "9", "9", ",", "9", "9", "9", ",", "9", "9", "9">>), deaths |-> IntCell(4),
       recovered |-> StrCell(<<"8", "0">>), active |-> StrCell(<<"8", "6">>),
       new_cases |-> IntCell(10), new_deaths |-> IntCell(1)] }

RECURSIVE SeqsUpTo(_, _)
SeqsUpTo(S, n) ==
    IF n = 0 THEN {<<>>}
    ELSE LET shorter == SeqsUpTo(S, n - 1)
         IN  shorter \cup {Append(q, x) : q \in {r \in shorter : Len(r) = n - 1}, x \in S}

\* The states covid.json can be in: absent or unparsable, or an array of
\* records that all carry the keys of one layout.
Files ==
    {[exists |-> FALSE, layout |-> <<>>, records |-> <<>>]}
    \cup {[exists |-> TRUE, layout |-> l, records |-> r] :
            l \in Layouts, r \in SeqsUpTo(Records, MaxRows)}

\* ------------------------------------------------------------------ data frames

Frame(cols, rows) == [cols |-> cols, rows |-> rows]

EmptyFrame == Frame(<<>>, <<>>)

\* The positions of the columns labelled name (df.columns may repeat a label).
ColIdx(df, name) == {j \in 1..Len(df.cols) : df.cols[j] = name}

\* name in df.columns
HasCol(df, name) == ColIdx(df, name) /= {}

\* df[name] when the label is unique: the cells of that column, row by row.
Column(df, name) ==
    LET j == CHOOSE j \in ColIdx(df, name) : TRUE
    IN  Tup([i \in 1..Len(df.rows) |-> df.rows[i][j]])

\* df[name] = values: replaces the column when present, appends it otherwise.
SetColumn(df, name, values) ==
    IF HasCol(df, name)
    THEN LET j == CHOOSE j \in ColIdx(df, name) : TRUE
         IN  Frame(df.cols, Tup([i \in 1..Len(df.rows) |-> [df.rows[i] EXCEPT ![j] = values[i]]]))
    ELSE Frame(Append(df.cols, name),
               Tup([i \in 1..Len(df.rows) |-> Append(df.rows[i], values[i])]))

\* ------------------------------------------------------------------ pd.read_json

\* float(x) succeeds on the cell.  The texts of Records are plain digit
\* strings or hold characters float() rejects.
FloatParsable(c) ==
    \/ c.k \in {"int", "null"}
    \/ c.k = "str" /\ c.s /= <<>> /\ \A i \in 1..Len(c.s) : c.s[i] \in Digits

NumberOf(c) == IF c.k = "int" THEN c.v ELSE DigitsToNat(c.s)

\* read_json's dtype inference on one column: an object column whose cells
\* all convert to float becomes float64, and int64 when nothing is missing.
InferColumn(cells) ==
    IF cells = <<>> \/ \E i \in 1..Len(cells) : ~FloatParsable(cells[i])
    THEN cells
    ELSE IF \A i \in 1..Len(cells) : cells[i].k /= "null"
    THEN Tup([i \in 1..Len(cells) |-> IntCell(NumberOf(cells[i]))])
    ELSE Tup([i \in 1..Len(cells) |->
            IF cells[i].k = "null" THEN NanFloat ELSE FloatCell(NumberOf(cells[i]))])

\* pd.read_json(DATA_FILE): raises when the file is absent or unparsable; an
\* empty array gives a frame without columns; otherwise one column per key.
ReadJson(file) ==
    IF ~file.exists THEN [raised |-> TRUE, df |-> EmptyFrame]
    ELSE IF file.records = <<>> THEN [raised |-> FALSE, df |-> EmptyFrame]
    ELSE LET n == Len(file.records)
             m == Len(file.layout)
             col(j) == InferColumn(Tup([i \in 1..n |-> file.records[i][file.layout[j].field]]))
         IN  [raised |-> FALSE,
              df |-> Frame(Tup([j \in 1..m |-> file.layout[j].raw]),
                           Tup([i \in 1..n |-> Tup([j \in 1..m |-> col(j)[i]])]))]

\* ------------------------------------------------------------------ load_data

\* df.columns.str.strip().str.lower().str.replace("[^a-z0-9]+", "_", regex=True)
NormalizeColumns(df) ==
    Frame(Tup([j \in 1..Len(df.cols) |-> NormalizeName(df.cols[j])]), df.rows)

column_mapping ==
    [totalcases |-> "total_confirmed_cases",
     confirmed |-> "total_confirmed_cases",
     deaths |-> "total_deaths",
     recovered |-> "total_recovered",
     active |-> "active_cases",
     new_cases |-> "daily_confirmed_cases",
     new_deaths |-> "daily_deaths"]

\* df.rename(columns=column_mapping, inplace=True): every label that is a key
\* of the mapping is replaced, the others are kept; nothing is merged.
RenameColumns(df) ==
    Frame(Tup([j \in 1..Len(df.cols) |->
             IF df.cols[j] \in DOMAIN column_mapping
             THEN column_mapping[df.cols[j]] ELSE df.cols[j]]),
          df.rows)

\* The mixed-format date parser on the date texts of Records, as a day
\* number counted from 2020-12-31.
ParseDate(t) ==
    CASE t = "2021-01-01" -> Ts(1)
      [] t = "2021-01-02" -> Ts(2)
      [] t = "01/03/2021" -> Ts(3)
      [] t = "2021-01-04" -> Ts(4)
      [] OTHER -> NaT

\* pd.to_datetime(..., format="mixed", errors="coerce") on one cell.
ToDatetime(c) == IF c.k = "date_text" THEN ParseDate(c.t) ELSE NaT

\* df.dropna(subset=["date"])
RECURSIVE DropNaT(_, _)
DropNaT(rows, j) ==
    IF rows = <<>> THEN <<>>
    ELSE IF Head(rows)[j].k = "NaT" THEN DropNaT(Tail(rows), j)
    ELSE <<Head(rows)>> \o DropNaT(Tail(rows), j)

\* One row put into rows already in ascending order, after the rows whose
\* date is not later.
RECURSIVE InsertByDate(_, _, _)
InsertByDate(sorted, r, j) ==
    IF sorted = <<>> THEN <<r>>
    ELSE IF Head(sorted)[j].day <= r[j].day
    THEN <<Head(sorted)>> \o InsertByDate(Tail(sorted), r, j)
    ELSE <<r>> \o sorted

\* sort_values left out: the rows stay in file order.
SortByDateNone(rows, j) == rows

\* df.sort_values("date")
RECURSIVE SortByDate(_, _)
SortByDate(rows, j) ==
    IF rows = <<>> THEN <<>>
    ELSE InsertByDate(SortByDate(SubSeq(rows, 1, Len(rows) - 1), j), rows[Len(rows)], j)

\* Lines 46-47: parse the date column, drop the rows without a date, sort.
ParseDropSort(df) ==
    LET j == CHOOSE j \in ColIdx(df, "date") : TRUE
        parsed == Tup([i \in 1..Len(df.rows) |->
                     [df.rows[i] EXCEPT ![j] = ToDatetime(df.rows[i][j])]])
    IN  Frame(df.cols, SortByDate(DropNaT(parsed, j), j))

numeric_cols ==
    <<"total_confirmed_cases", "total_deaths", "total_recovered",
      "active_cases", "daily_confirmed_cases", "daily_deaths">>

\* .astype(str) on one cell.
AsStr(c) ==
    CASE c.k = "str" -> c.s
      [] c.k = "int" -> IntToStr(c.v)
      [] c.k = "float" -> IntToStr(c.v) \o <<".", "0">>
      [] c.k = "nanf" -> <<"n", "a", "n">>
      [] c.k = "null" -> <<"N", "o", "n", "e">>

\* The digits line 59 leaves of one cell.
DigitsOf(c) == KeepDigits(AsStr(c))

\* pd.to_numeric(..., errors="coerce").fillna(0) on one cell: no digit left
\* gives NaN and then 0.
CoerceCell(c) ==
    IF DigitsOf(c) = <<>> THEN IntCell(0)
    ELSE IntCell(DigitsToNat(DropLeadingZeros(DigitsOf(c))))

\* Lines 58-61 on one column.  A number above 2^63 - 1 leaves to_numeric as
\* a float64 or uint64 that .astype("Int64") refuses to cast: TypeError.
CoerceColumn(cells) ==
    IF \E i \in 1..Len(cells) : ~FitsInt64(DigitsOf(cells[i]))
    THEN [raised |-> TRUE, cells |-> cells]
    ELSE [raised |-> FALSE, cells |-> Tup([i \in 1..Len(cells) |-> CoerceCell(cells[i])])]

\* The loop of lines 56-61 coercing, of the columns that share a label, the
\* last one.
RECURSIVE CoerceFromLastWins(_, _)
CoerceFromLastWins(df, n) ==
    IF n > Len(numeric_cols) THEN [raised |-> FALSE, df |-> df]
    ELSE LET col == numeric_cols[n]
         IN  IF ~HasCol(df, col) THEN CoerceFromLastWins(df, n + 1)
             ELSE LET j == CHOOSE j \in ColIdx(df, col) : \A l \in ColIdx(df, col) : j >= l
                      c == CoerceColumn(Tup([i \in 1..Len(df.rows) |-> df.rows[i][j]]))
                  IN  IF c.raised THEN [raised |-> TRUE, df |-> df]
                      ELSE CoerceFromLastWins(
                               Frame(df.cols,
                                     Tup([i \in 1..Len(df.rows) |->
                                            [df.rows[i] EXCEPT ![j] = c.cells[i]]])),
                               n + 1)

\* The loop of lines 56-61 from numeric_cols[n] on.  With a label that
\* occurs twice df[col] is a DataFrame, which has no .str: AttributeError.
RECURSIVE CoerceFrom(_, _)
CoerceFrom(df, n) ==
    IF n > Len(numeric_cols) THEN [raised |-> FALSE, df |-> df]
    ELSE LET col == numeric_cols[n]
         IN  IF ~HasCol(df, col) THEN CoerceFrom(df, n + 1)
             ELSE IF Cardinality(ColIdx(df, col)) > 1 THEN [raised |-> TRUE, df |-> df]
             ELSE LET c == CoerceColumn(Column(df, col))
                  IN  IF c.raised THEN [raised |-> TRUE, df |-> df]
                      ELSE CoerceFrom(SetColumn(df, col, c.cells), n + 1)

MsgNoDate == "Date column not found in dataset!"
MsgLoadFailed == "Data loading failed"

\* NotLoaded without the st.error call.
NotLoadedSilent(msg) == [none |-> TRUE, df |-> EmptyFrame, errors |-> <<>>]

Loaded(df) == [none |-> FALSE, df |-> df, errors |-> <<>>]
NotLoaded(msg) == [none |-> TRUE, df |-> EmptyFrame, errors |-> <<msg>>]

\* The body of load_data: what it returns (none: it returned None) and the
\* st.error messages it emitted.
load_data_body(file) ==
    LET read == ReadJson(file)
        named == RenameColumns(NormalizeColumns(read.df))
    IN  IF read.raised THEN NotLoaded(MsgLoadFailed)
        \* the columns of a frame without columns are a RangeIndex: no .str
        ELSE IF read.df.cols = <<>> THEN NotLoaded(MsgLoadFailed)
        ELSE IF ~HasCol(named, "date") THEN NotLoaded(MsgNoDate)
        \* two date columns: pd.to_datetime of a DataFrame with duplicate keys raises
        ELSE IF Cardinality(ColIdx(named, "date")) > 1 THEN NotLoaded(MsgLoadFailed)
        ELSE LET coerced == CoerceFrom(ParseDropSort(named), 1)
             IN  IF coerced.raised THEN NotLoaded(MsgLoadFailed)
                 ELSE Loaded(coerced.df)

\* ------------------------------------------------------------------ state

VARIABLES
    file,       \* covid.json, fixed while the process lives
    nan_is_na,  \* whether the installed pandas holds the NaN of 0/0 in a nullable column as NA
    cache,      \* the memo of st.cache_data for load_data
    body_runs,  \* how many times the body of load_data has executed
    first_load, \* the table the body of load_data returned when it executed
    heap,       \* the table objects alive: the cache's entry and the df of the render
    render,     \* the last run of main(): its inputs and what it showed
    advanced_seen \* whether some run of main() so far computed the derived metrics

vars == <<file, nan_is_na, cache, body_runs, first_load, heap, render, advanced_seen>>

\* ------------------------------------------------------------------ float results

RECURSIVE Gcd(_, _)
Gcd(a, b) == IF b = 0 THEN a ELSE Gcd(b, a % b)

Abs(x) == IF x < 0 THEN -x ELSE x

\* The finite value n/d (d > 0), in lowest terms.
Rat(n, d) ==
    LET g == Gcd(Abs(n), d)
    IN  [k |-> "rat", n |-> n \div g, d |-> d \div g]

Zero == Rat(0, 1)
Inf == [k |-> "inf"]
NaN == [k |-> "nan"]
NA == [k |-> "NA"]

\* a / b on the values of two Int64 columns: x/0 is inf; 0/0 is NaN, which a
\* nullable Float64 column holds either as NaN or as NA.
Divide(a, b) ==
    IF b /= 0 THEN Rat(a, b)
    ELSE IF a /= 0 THEN Inf
    ELSE IF nan_is_na THEN NA ELSE NaN

\* .fillna(0): replaces what is missing (NA), nothing else.
FillNa(x) == IF x.k = "NA" THEN Zero ELSE x

\* .fillna(0) on a column
FillNaColumn(cells) == Tup([i \in 1..Len(cells) |-> IF cells[i].k = "NA" THEN IntCell(0) ELSE cells[i]])

\* .replace([np.inf, -np.inf], 0)
ReplaceInf(x) == IF x.k = "inf" THEN Zero ELSE x

\* x * 100
Times100(x) == IF x.k = "rat" THEN Rat(x.n * 100, x.d) ELSE x

\* x - 1
MinusOne(x) == IF x.k = "rat" THEN Rat(x.n - x.d, x.d) ELSE x

\* np.log(2) / np.log(1 + g): ln(1) = 0 gives inf, ln(0) = -inf gives -0.0,
\* ln(inf) = inf gives 0.0; any other finite g gives the finite non-zero
\* value written dbl(g).
DoublingRaw(g) ==
    CASE g.k = "rat" /\ g.n = 0 -> Inf
      [] g.k = "rat" /\ g.n = -g.d -> Zero
      [] g.k = "rat" /\ g.n /= 0 /\ g.n /= -g.d -> [k |-> "dbl", g |-> g]
      [] g.k = "inf" -> Zero
      [] OTHER -> g

\* ------------------------------------------------------------------ derived metrics

\* A call on the table object heap[ref]: raised (a KeyError), the heap after
\* it, and the object it returned.
Result(raised, h, ref) == [raised |-> raised, heap |-> h, ret |-> ref]

\* df[name] = values, on the object itself
Assign(h, ref, name, values) == [h EXCEPT ![ref] = SetColumn(h[ref], name, values)]

\* .diff().fillna(0) of total_confirmed_cases
DailyChange(tc) ==
    Tup([i \in 1..Len(tc) |-> IF i = 1 THEN IntCell(0) ELSE IntCell(tc[i].v - tc[i - 1].v)])

\* .pct_change().fillna(0) of total_confirmed_cases: tc[i] / tc[i-1] - 1,
\* missing for the first row.
GrowthRate(tc) ==
    Tup([i \in 1..Len(tc) |->
        FillNa(IF i = 1 THEN NA ELSE MinusOne(Divide(tc[i].v, tc[i - 1].v)))])

\* Lines 76-77 without the .replace of the infinite values.
DoublingTimeKeepInf(growth) ==
    Tup([i \in 1..Len(growth) |-> FillNa(DoublingRaw(growth[i]))])

\* Lines 76-77.
DoublingTime(growth) ==
    Tup([i \in 1..Len(growth) |-> FillNa(ReplaceInf(DoublingRaw(growth[i])))])

calculate_growth_metrics(h, ref) ==
    IF ~HasCol(h[ref], "total_confirmed_cases") THEN Result(TRUE, h, ref)
    ELSE LET tc == Column(h[ref], "total_confirmed_cases")
             growth == GrowthRate(tc)
             h1 == Assign(h, ref, "daily_change", DailyChange(tc))
             h2 == Assign(h1, ref, "growth_rate", growth)
             h3 == Assign(h2, ref, "growth_rate_pct",
                          Tup([i \in 1..Len(tc) |-> Times100(growth[i])]))
             h4 == Assign(h3, ref, "doubling_time_days", DoublingTime(growth))
         IN  Result(FALSE, h4, ref)

\* numerator / total_confirmed_cases, row by row
RateOf(num, tc) == Tup([i \in 1..Len(tc) |-> Divide(num[i].v, tc[i].v)])

\* calculate_rates with the fatality rate written over total_deaths.
calculate_rates_overwriting(h, ref) ==
    IF ~HasCol(h[ref], "total_deaths") \/ ~HasCol(h[ref], "total_confirmed_cases")
    THEN Result(TRUE, h, ref)
    ELSE LET tc == Column(h[ref], "total_confirmed_cases")
             cfr == RateOf(Column(h[ref], "total_deaths"), tc)
             h1 == Assign(Assign(h, ref, "total_deaths", cfr), ref, "cfr", cfr)
         IN  IF ~HasCol(h[ref], "total_recovered") THEN Result(TRUE, h1, ref)
             ELSE LET rr == RateOf(Column(h[ref], "total_recovered"), tc)
                      h2 == Assign(h1, ref, "recovery_rate", rr)
                      h3 == Assign(h2, ref, "cfr_pct",
                                   Tup([i \in 1..Len(tc) |-> Times100(cfr[i])]))
                      h4 == Assign(h3, ref, "recovery_rate_pct",
                                   Tup([i \in 1..Len(tc) |-> Times100(rr[i])]))
                  IN  Result(FALSE, h4, ref)

calculate_rates(h, ref) ==
    IF ~HasCol(h[ref], "total_deaths") \/ ~HasCol(h[ref], "total_confirmed_cases")
    THEN Result(TRUE, h, ref)
    ELSE LET tc == Column(h[ref], "total_confirmed_cases")
             cfr == RateOf(Column(h[ref], "total_deaths"), tc)
             h1 == Assign(h, ref, "cfr", cfr)
         IN  IF ~HasCol(h[ref], "total_recovered") THEN Result(TRUE, h1, ref)
             ELSE LET rr == RateOf(Column(h[ref], "total_recovered"), tc)
                      h2 == Assign(h1, ref, "recovery_rate", rr)
                      h3 == Assign(h2, ref, "cfr_pct",
                                   Tup([i \in 1..Len(tc) |-> Times100(cfr[i])]))
                      h4 == Assign(h3, ref, "recovery_rate_pct",
                                   Tup([i \in 1..Len(tc) |-> Times100(rr[i])]))
                  IN  Result(FALSE, h4, ref)

\* ------------------------------------------------------------------ st.cache_data

\* The stored object itself handed out, as st.cache_resource does.
CacheGetShared(h) == [heap |-> h, ref |-> "cached"]

\* What a call of the memoized load_data gives the caller: a copy of the
\* stored value (st.cache_data pickles the value and unpickles it on every
\* call), as a fresh object of the heap.
CacheGet(h) == [heap |-> [h EXCEPT !.local = h.cached], ref |-> "local"]

\* One call load_data() of line 163: the body runs on a miss only, and the
\* st.error elements of the body are replayed on a hit.
load_data ==
    LET miss == ~cache.filled
        value == IF miss THEN load_data_body(file)
                 ELSE [none |-> cache.none, df |-> heap.cached, errors |-> cache.errors]
        got == CacheGet(IF miss THEN [heap EXCEPT !.cached = value.df] ELSE heap)
    IN  [miss |-> miss, none |-> value.none, errors |-> value.errors,
         body_df |-> value.df, heap |-> got.heap, ref |-> got.ref]

\* ------------------------------------------------------------------ main: the two views

SectionData == "Data analysis"
SectionAdvanced == "Advanced Data analysis"
MsgNoCompare == "No data available for the comparison date."

\* The slider of line 283: its two ends and its default.
ProjectionDays == {7, 30, 60}

DateCol(df) == CHOOSE j \in ColIdx(df, "date") : TRUE

Days(df) == {df.rows[i][DateCol(df)].day : i \in 1..Len(df.rows)}

MinDay(df) == CHOOSE d \in Days(df) : \A e \in Days(df) : d <= e
MaxDay(df) == CHOOSE d \in Days(df) : \A e \in Days(df) : d >= e

\* What st.sidebar.date_input can return for a range: both ends picked, or
\* only the start picked so far.
DateRanges(df) ==
    LET days == MinDay(df)..MaxDay(df)
    IN  {r \in days \X days : r[1] <= r[2]} \cup {<<a>> : a \in days}

\* The rows of df with lo <= date <= hi.
RowsBetween(df, lo, hi) ==
    LET j == DateCol(df)
        keep(r) == lo <= r[j].day /\ r[j].day <= hi
    IN  Frame(df.cols, SelectSeq(df.rows, keep))

\* series.max() of an Int64 column: missing when there is no row.
MaxOf(cells) ==
    IF cells = <<>> THEN NA
    ELSE LET vs == {cells[i].v : i \in 1..Len(cells)}
         IN  IntCell(CHOOSE v \in vs : \A w \in vs : v >= w)

\* ((max - base) / base) * 100 on scalars: missing when max is; a zero base
\* gives inf or nan, not an exception.
ChangePct(max, base) ==
    IF max.k = "NA" THEN NA
    ELSE IF base.v /= 0 THEN Times100(Rat(max.v - base.v, base.v))
    ELSE IF max.v /= base.v THEN Inf ELSE NaN

Step(draw, col, rows, err) == [draw |-> draw, col |-> col, rows |-> rows, err |-> err]

\* Lines 184-271 in order: what each statement draws, the column it reads,
\* whether it reads a row of filtered_df by position, and the exception it
\* raises when the column is absent.
DataSteps(compared) ==
    (IF compared
     THEN << Step("compare Total Cases", "total_confirmed_cases", FALSE, "KeyError"),
             Step("compare Fatalities", "total_deaths", FALSE, "KeyError"),
             Step("compare Active Cases", "active_cases", FALSE, "KeyError") >>
     ELSE <<>>)
    \o << Step("Total Cases", "total_confirmed_cases", FALSE, "KeyError"),
          Step("Fatalities", "total_deaths", FALSE, "KeyError"),
          Step("Active Cases", "active_cases", FALSE, "KeyError"),
          Step("Recoveries", "total_recovered", FALSE, "KeyError"),
          Step("Case Progression Timeline", "total_confirmed_cases", FALSE, "ValueError"),
          Step("Daily Cases Area Chart", "daily_confirmed_cases", FALSE, "ValueError"),
          Step("Case Distribution Pie Chart", "active_cases", TRUE, "KeyError"),
          Step("Daily Cases by Day of Week", "daily_confirmed_cases", FALSE, "KeyError"),
          Step("Case Fatality Rate", "total_deaths", FALSE, "KeyError"),
          Step("Recovery Rate", "total_recovered", FALSE, "KeyError") >>

\* Lines 286-363 in order.
AdvancedSteps ==
    << Step("", "daily_confirmed_cases", FALSE, "KeyError"),
       Step("Projected Cases", "date", TRUE, "KeyError"),
       Step("Key Metrics", "daily_confirmed_cases", TRUE, "KeyError"),
       Step("Cumulative Trends (Log Scale)", "total_confirmed_cases", FALSE, "ValueError"),
       Step("Daily Cases with 7-Day Moving Averages", "daily_deaths", FALSE, "ValueError"),
       Step("Growth Phase Analysis", "growth_rate_pct", FALSE, "ValueError"),
       Step("Phase Summary Statistics", "growth_rate_pct", FALSE, "KeyError"),
       Step("Distribution Analysis", "daily_deaths", FALSE, "KeyError"),
       Step("Advanced Metrics Correlation", "growth_rate_pct", FALSE, "KeyError") >>

\* The statements of a view run in order on the table they read, up to the
\* first that raises: what was drawn and the exception, "" when none.
RECURSIVE RunSteps(_, _, _)
RunSteps(steps, df, drawn) ==
    IF steps = <<>> THEN [drawn |-> drawn, fault |-> ""]
    ELSE LET st == Head(steps)
         IN  IF ~HasCol(df, st.col) THEN [drawn |-> drawn, fault |-> st.err]
             ELSE IF st.rows /\ df.rows = <<>> THEN [drawn |-> drawn, fault |-> "IndexError"]
             ELSE RunSteps(Tail(steps), df,
                           IF st.draw = "" THEN drawn ELSE Append(drawn, st.draw))

\* A run of main() as recorded in render.
Run(section, range, compare, horizon, ld, msgs, drawn, fault, calls, changes, stopped) ==
    [section |-> section, date_range |-> range, compare_date |-> compare,
     projection_days |-> horizon, none |-> ld.none,
     obtained |-> ld.heap[ld.ref], ref |-> ld.ref,
     msgs |-> msgs, drawn |-> drawn, fault |-> fault, calls |-> calls,
     changes |-> changes, stopped |-> stopped]

\* Lines 163-165: the effects of the call of load_data on the cache.
Obtain(ld) ==
    /\ cache' = [filled |-> TRUE, none |-> ld.none, errors |-> ld.errors]
    /\ body_runs' = IF ld.miss THEN body_runs + 1 ELSE body_runs
    /\ first_load' = IF ld.miss THEN ld.body_df ELSE first_load
    /\ UNCHANGED <<file, nan_is_na>>

\* if df is None: st.stop()
Stop(section, ld) ==
    /\ heap' = ld.heap
    /\ render' = Run(section, <<>>, 0, 0, ld, ld.errors, <<>>, "", <<"load_data">>, <<>>, TRUE)
    /\ UNCHANGED advanced_seen

\* Lines 169-271 for one choice of the two date widgets.
DataView(ld, range, compare) ==
    LET df == ld.heap[ld.ref]
        run(msgs, drawn, fault, changes) ==
            Run(SectionData, range, compare, 0, ld, msgs, drawn, fault,
                <<"load_data">>, changes, FALSE)
    IN  IF Len(range) /= 2
        \* line 176: a tuple of one date cannot be unpacked into two names
        THEN run(<<>>, <<>>, "ValueError", <<>>)
        ELSE LET filtered == RowsBetween(df, range[1], range[2])
                 compare_df == RowsBetween(df, compare, compare)
                 compared == compare_df.rows /= <<>>
                 done == RunSteps(DataSteps(compared), filtered, <<>>)
                 change(n) ==
                     ChangePct(MaxOf(Column(filtered, DataSteps(TRUE)[n].col)),
                               Column(compare_df, DataSteps(TRUE)[n].col)[1])
                 shown == {n \in 1..3 : DataSteps(TRUE)[n].draw \in Range(done.drawn)}
             IN  run(IF compared THEN <<>> ELSE <<MsgNoCompare>>,
                     done.drawn, done.fault,
                     Tup([n \in 1..Cardinality(shown) |-> change(n)]))

\* Lines 278-363 for one choice of the slider.
AdvancedView(ld, horizon) ==
    LET growth == calculate_growth_metrics(ld.heap, ld.ref)
        rates == calculate_rates(growth.heap, growth.ret)
        run(h, drawn, fault, calls) ==
            [heap |-> h,
             run |-> Run(SectionAdvanced, <<>>, 0, horizon, ld, <<>>, drawn, fault,
                         <<"load_data">> \o calls, <<>>, FALSE)]
    IN  IF growth.raised
        THEN run(growth.heap, <<>>, "KeyError", <<"calculate_growth_metrics">>)
        ELSE IF rates.raised
        THEN run(rates.heap, <<>>, "KeyError",
                 <<"calculate_growth_metrics", "calculate_rates">>)
        ELSE LET df == rates.ret
                 \* line 286: df['daily_confirmed_cases'] = df['daily_confirmed_cases'].fillna(0)
                 filled == IF ~HasCol(rates.heap[df], "daily_confirmed_cases") THEN rates.heap
                           ELSE Assign(rates.heap, df, "daily_confirmed_cases",
                                       FillNaColumn(Column(rates.heap[df],
                                                           "daily_confirmed_cases")))
                 done == RunSteps(AdvancedSteps, filled[df], <<>>)
             IN  run(filled, done.drawn, done.fault,
                     <<"calculate_growth_metrics", "calculate_rates">>)

\* ------------------------------------------------------------------ actions

\* A render with "Data analysis" selected in the sidebar.
RenderDataAnalysis ==
    LET ld == load_data
    IN  /\ Obtain(ld)
        /\ IF ld.none THEN Stop(SectionData, ld)
           ELSE IF ld.heap[ld.ref].rows = <<>>
           \* no date to bound the pickers with, and no row for iloc[-1]
           THEN /\ heap' = ld.heap
                /\ render' = Run(SectionData, <<>>, 0, 0, ld, <<>>, <<>>, "NoRows",
                                 <<"load_data">>, <<>>, FALSE)
                /\ UNCHANGED advanced_seen
           ELSE \E range \in DateRanges(ld.heap[ld.ref]) :
                \E compare \in MinDay(ld.heap[ld.ref])..MaxDay(ld.heap[ld.ref]) :
                    /\ heap' = ld.heap
                    /\ render' = DataView(ld, range, compare)
                    /\ UNCHANGED advanced_seen

\* A render with "Advanced Data analysis" selected in the sidebar.
RenderAdvanced ==
    LET ld == load_data
    IN  /\ Obtain(ld)
        /\ IF ld.none THEN Stop(SectionAdvanced, ld)
           ELSE \E horizon \in ProjectionDays :
                    LET view == AdvancedView(ld, horizon)
                    IN  /\ heap' = view.heap
                        /\ render' = view.run
                        /\ advanced_seen' = TRUE

NoRun ==
    [section |-> "", date_range |-> <<>>, compare_date |-> 0, projection_days |-> 0,
     none |-> FALSE, obtained |-> EmptyFrame, ref |-> "local", msgs |-> <<>>,
     drawn |-> <<>>, fault |-> "", calls |-> <<>>, changes |-> <<>>, stopped |-> FALSE]

Init ==
    /\ file \in Files
    /\ nan_is_na \in BOOLEAN
    /\ cache = [filled |-> FALSE, none |-> FALSE, errors |-> <<>>]
    /\ body_runs = 0
    /\ first_load = EmptyFrame
    /\ heap = [cached |-> EmptyFrame, local |-> EmptyFrame]
    /\ render = NoRun
    /\ advanced_seen = FALSE

Next == RenderDataAnalysis \/ RenderAdvanced

Spec == Init /\ [][Next]_vars

\* ------------------------------------------------------------------ properties

SourceColumns == {"date"} \cup Range(numeric_cols)

GrowthColumns == {"daily_change", "growth_rate", "growth_rate_pct", "doubling_time_days"}

RateColumns == {"cfr", "recovery_rate", "cfr_pct", "recovery_rate_pct"}

DerivedColumns == GrowthColumns \cup RateColumns

\* The df of the last run of main() as that run left it.
Table == heap[render.ref]

Rendered == render.section /= ""

\* load_data has been called and returned a table.
TableLoaded == cache.filled /\ ~cache.none

\* The last run was an Advanced render that reached the data processing.
AdvancedRun == render.section = SectionAdvanced /\ ~render.none

\* ... and calculate_growth_metrics returned.
GrowthDone == AdvancedRun /\ GrowthColumns \subseteq Range(Table.cols)

\* ... and calculate_rates returned.
RatesDone == AdvancedRun /\ RateColumns \subseteq Range(Table.cols)

\* The labels of the file's columns after normalisation and renaming.
CanonicalNames(f) == RenameColumns(NormalizeColumns(Frame(Tup([j \in 1..Len(f.layout) |-> f.layout[j].raw]), <<>>))).cols

Occurrences(names, name) == Cardinality({j \in 1..Len(names) : names[j] = name})

\* The file gives read_json at least one column, and none is labelled date
\* once the labels are normalised and renamed.
NoDateColumn(f) ==
    f.exists /\ f.records /= <<>> /\ Occurrences(CanonicalNames(f), "date") = 0

\* C1: whenever load_data cannot produce a table (the file is missing or
\* unparsable, or no column is named date after normalisation and renaming)
\* it emits an error message and returns no table, and main stops the render
\* before any view is drawn.
C1_FailedLoadStopsRender ==
    Rendered =>
        /\ ~file.exists => render.none /\ render.msgs = <<MsgLoadFailed>>
        /\ NoDateColumn(file) => render.none /\ render.msgs = <<MsgNoDate>>
        /\ file.records = <<>> => render.none
        /\ render.none =>
              /\ render.msgs /= <<>>
              /\ render.obtained = EmptyFrame
              /\ render.stopped
              /\ render.drawn = <<>>
              /\ render.calls = <<"load_data">>

\* An Advanced render of a file without a date column, stopped with the message.
C1_Witness ==
    /\ render.section = SectionAdvanced
    /\ NoDateColumn(file)
    /\ render.none /\ render.stopped /\ render.msgs = <<MsgNoDate>>

LoadedDays == Column(first_load, "date")

OnlyNumericTrouble(f) ==
    /\ f.exists /\ f.records /= <<>>
    /\ \A j \in 1..Len(f.layout) : Occurrences(CanonicalNames(f), CanonicalNames(f)[j]) = 1
    /\ Occurrences(CanonicalNames(f), "date") = 1

\* The cells of the count columns of a frame with the labels of names.
CountCells(names, row) ==
    {<<names[j], row[j]>> : j \in {j \in 1..Len(names) : names[j] \in Range(numeric_cols)}}

\* C3: every count value of the loaded table is the non-negative integer
\* formed by the digits of the raw value's string form, 0 when there is none,
\* and bad numeric data never makes the load fail.
C3_CountsCoercedNeverFail ==
    cache.filled /\ OnlyNumericTrouble(file) =>
        /\ ~cache.none
        /\ \A i \in 1..Len(first_load.rows) :
              \E r \in Range(ReadJson(file).df.rows) :
                  \A cell \in CountCells(first_load.cols, first_load.rows[i]) :
                      \E raw \in CountCells(CanonicalNames(file), r) :
                          /\ raw[1] = cell[1]
                          /\ cell[2].k = "int" /\ cell[2].v >= 0
                          /\ cell[2].v = DigitsToNat(KeepDigits(AsStr(raw[2])))

TotalCases == Column(Table, "total_confirmed_cases")

\* C4: after calculate_growth_metrics, every row whose predecessor has
\* total_confirmed_cases = 0 has growth_rate = 0 and growth_rate_pct = 0.
C4_ZeroGrowthAfterZeroCases ==
    GrowthDone =>
        \A i \in 2..Len(Table.rows) :
            TotalCases[i - 1].v = 0 =>
                /\ Column(Table, "growth_rate")[i] = Zero
                /\ Column(Table, "growth_rate_pct")[i] = Zero

\* C5: after calculate_rates, every row with total_confirmed_cases = 0 has
\* cfr = recovery_rate = 0 and so have the _pct columns; no undefined or
\* non-finite rate remains.
C5_ZeroRatesAtZeroCases ==
    RatesDone =>
        \A i \in 1..Len(Table.rows) :
            /\ \A c \in RateColumns : Column(Table, c)[i].k = "rat"
            /\ TotalCases[i].v = 0 => \A c \in RateColumns : Column(Table, c)[i] = Zero

\* C6: for a non-empty table, after calculate_growth_metrics the first row
\* has daily_change = 0, growth_rate = 0 and doubling_time_days = 0.
C6_FirstRowZero ==
    GrowthDone /\ Table.rows /= <<>> =>
        /\ Column(Table, "daily_change")[1] = IntCell(0)
        /\ Column(Table, "growth_rate")[1] = Zero
        /\ Column(Table, "doubling_time_days")[1] = Zero

\* An Advanced render of two rows, the first with a positive count.
C6_Witness ==
    /\ GrowthDone
    /\ Len(Table.rows) = 2
    /\ TotalCases[1].v > 0
    /\ Column(Table, "doubling_time_days")[1] = Zero
    /\ Column(Table, "doubling_time_days")[2].k = "dbl"

\* C7: the body of load_data executes at most once; the table every render
\* obtains has the columns and values of the first load, without any derived
\* column of an earlier Advanced render; every Advanced render computes the
\* derived columns again.
C7_LoadedOnceReusedUnchanged ==
    /\ body_runs <= 1
    /\ Rendered => body_runs = 1
    /\ Rendered /\ ~render.none =>
          /\ render.obtained = first_load
          /\ Range(render.obtained.cols) \cap DerivedColumns = {}
    /\ AdvancedRun => Len(render.calls) >= 2 /\ render.calls[2] = "calculate_growth_metrics"

\* A Data analysis render that follows an Advanced render and draws from the
\* table of the first load.
C7_Witness ==
    /\ advanced_seen
    /\ render.section = SectionData /\ ~render.none
    /\ render.drawn /= <<>> /\ render.fault = ""
    /\ render.obtained = first_load
    /\ body_runs = 1

\* C8 as stated: the derived-metric computation leaves the table object it
\* was given unchanged; that object gains no column.
C8_GivenTableUntouched ==
    AdvancedRun => Table = render.obtained

\* C8 amended: the derived-metric computation adds the derived columns to
\* the table object it is given, the render's own copy of the cached table;
\* the source columns of that object keep their values in every row, the rows
\* their number and order, and the cached table gains no column.
C8_SourceColumnsKept ==
    AdvancedRun =>
        LET before == render.obtained
            n == Len(before.cols)
        IN  /\ Len(Table.rows) = Len(before.rows)
            /\ SubSeq(Table.cols, 1, n) = before.cols
            /\ \A i \in 1..Len(before.rows) : SubSeq(Table.rows[i], 1, n) = before.rows[i]
            /\ Range(Table.cols) \ Range(before.cols) \subseteq DerivedColumns
            /\ (HasCol(before, "total_confirmed_cases") => GrowthDone)
            /\ heap.cached = first_load

\* An Advanced render that ran to its end: the df of the render holds the
\* eight derived columns, the cached table none.
C8_Witness ==
    /\ GrowthDone /\ RatesDone
    /\ render.fault = "" /\ render.drawn /= <<>>
    /\ Table.rows /= <<>>
    /\ Range(heap.cached.cols) \cap DerivedColumns = {}

\* The drawn elements of a Data analysis render that follow the comparison.
MetricsAndCharts == {DataSteps(FALSE)[n].draw : n \in 1..Len(DataSteps(FALSE))}

\* C9: once a table is loaded, no Data analysis render ends in an unhandled
\* fault, whatever the date pickers return; a comparison date without a row
\* gives the warning; the metrics and charts are drawn.
C9_DataAnalysisNeverFaults ==
    render.section = SectionData /\ ~render.none /\ render.obtained.rows /= <<>> =>
        /\ render.fault = ""
        /\ MetricsAndCharts \subseteq Range(render.drawn)
        /\ (\A i \in 1..Len(LoadedDays) : LoadedDays[i].day /= render.compare_date)
              => render.msgs = <<MsgNoCompare>>

\* Two columns of the file are aliases of the same count column.
DuplicateAlias(f) ==
    /\ f.exists /\ f.records /= <<>>
    /\ \E c \in Range(numeric_cols) : Occurrences(CanonicalNames(f), c) > 1

====
